---- MODULE Spec2Model ----
(***************************************************************************)
(* State-machine model of the Grip package manager (src/src/main.rs):      *)
(* the install pipeline of Grip::install, the install ledger PackageState  *)
(* and the registry administration of Grip::handle_registry_command.       *)
(*                                                                         *)
(* Encodings.                                                              *)
(*   Option<T>      : <<>> is None, <<x>> is Some(x).                      *)
(*   file name      : the sequence of its dot-separated parts,             *)
(*                    "foo.tar.gz" is <<"foo","tar","gz">>, "" is <<"">>.  *)
(*   directory      : the sequence of its components below data_dir.       *)
(*   file path      : [dir |-> directory, file |-> file name].             *)
(*   JSON string    : an Option; <<>> when the field is missing or is not  *)
(*                    a string (serde_json's as_str() returning None).     *)
(***************************************************************************)
EXTENDS Integers, Sequences, FiniteSets, TLC

\* Bound on the number of command-line invocations in one behaviour.
MaxRuns == 3

None == <<>>
Some(x) == <<x>>

\* Option::unwrap_or / Value::as_str().unwrap_or(d)
unwrap_or(opt, d) == IF opt = None THEN d ELSE opt[1]

Last(s) == s[Len(s)]
Front(s) == SubSeq(s, 1, Len(s) - 1)

(***************************************************************************)
(* std::path and str helpers used by install.                              *)
(***************************************************************************)
\* str::ends_with(".s1.s2..."), suffix given as the parts after each dot.
ends_with(filename, suffix) ==
    /\ Len(filename) > Len(suffix)
    /\ SubSeq(filename, Len(filename) - Len(suffix) + 1, Len(filename)) = suffix

\* The archive test of install.
is_archive(filename) ==
    \/ ends_with(filename, <<"zip">>)
    \/ ends_with(filename, <<"tar", "gz">>)
    \/ ends_with(filename, <<"tgz">>)

\* Path::extension: None without an embedded dot, None for ".name".
extension(file) ==
    IF Len(file) = 1 THEN None
    ELSE IF Len(file) = 2 /\ file[1] = "" THEN None
    ELSE Some(Last(file))

\* Path::file_stem
file_stem(file) == IF extension(file) = None THEN file ELSE Front(file)

\* PathBuf::set_file_name
set_file_name(path, name) == [path EXCEPT !.file = name]

\* PathBuf::set_extension
set_extension(path, ext) ==
    [path EXCEPT !.file = file_stem(path.file) \o (IF ext = "" THEN <<>> ELSE <<ext>>)]

\* PathBuf::join of a directory and a file name
join(dir, name) == [dir |-> dir, file |-> name]

(***************************************************************************)
(* The environment: registry indexes, the hosting platform's release       *)
(* listings and the contents of the published archives.                    *)
(***************************************************************************)
Default == [name |-> "default", url |-> "u/default", priority |-> 0]
Extra == [name |-> "extra", url |-> "u/extra", priority |-> 0]

\* The package index a registry serves: PackageDefinition records.
RegistryIndex(reg) ==
    IF reg = "default"
      THEN {[name |-> "foo", repository |-> "o/foo", executable_name |-> Some(<<"foo">>)]}
    ELSE IF reg = "extra"
      THEN {[name |-> "bar", repository |-> "o/bar", executable_name |-> None]}
    ELSE {}

A_targz == [name |-> Some(<<"foo", "tar", "gz">>), browser_download_url |-> Some("u/foo.tar.gz")]
A_win == [name |-> Some(<<"foo-win", "exe">>), browser_download_url |-> Some("u/foo-win.exe")]
A_zip == [name |-> Some(<<"foo", "zip">>), browser_download_url |-> Some("u/foo.zip")]
A_linux == [name |-> Some(<<"foo-linux">>), browser_download_url |-> Some("u/foo-linux")]
A_unnamed == [name |-> None, browser_download_url |-> Some("u/unnamed")]
A_nourl == [name |-> Some(<<"foo-src">>), browser_download_url |-> None]
A_bar == [name |-> Some(<<"bar">>), browser_download_url |-> Some("u/bar")]

FooReleases ==
    << [tag_name |-> Some("v2.0"), assets |-> Some(<<A_targz, A_win>>)],
       [tag_name |-> None, assets |-> Some(<<A_unnamed, A_zip>>)],
       [tag_name |-> Some("v1.0"), assets |-> Some(<<A_linux, A_nourl>>)] >>

BarReleases ==
    << [tag_name |-> Some("v1.0"), assets |-> Some(<<A_bar>>)],
       [tag_name |-> Some("v0.9"), assets |-> None] >>

\* The release listings the hosting platform may answer with for a repository.
HostedReleases(repository) ==
    IF repository = "o/foo" THEN {FooReleases} ELSE {<<>>, BarReleases}

\* The entries packed in the archive behind a download URL.
ArchiveEntries(url) ==
    IF url = "u/foo.tar.gz" THEN {<<"foo-linux">>}
    ELSE IF url = "u/foo.zip" THEN {<<"foo">>}
    ELSE {}

(***************************************************************************)
(* Command lines (cli::Commands as dispatched by main).                    *)
(***************************************************************************)
\* install <package> [--version V] [--asset A]: every combination for foo, and
\* for the other packages those that differ in what install does with them.
InstallCommands ==
    LET all == [op : {"install"},
                package : {"foo", "bar", "ghost"},
                version : {None, Some("v2.0"), Some("v1.0"), Some("v9.9"), Some("")},
                asset : {None, Some(<<"foo", "tar", "gz">>), Some(<<"foo-win", "exe">>),
                         Some(<<"foo", "zip">>), Some(<<"nope", "bin">>), Some(<<"">>)}]
    IN {c \in all :
           /\ c.package = "ghost" => c.version = None /\ c.asset = None
           /\ c.package = "bar" => c.asset \in {None, Some(<<"nope", "bin">>)}}

\* registry add / remove / list; the registry name is any string, the empty
\* one included.
RegistryCommands ==
    [op : {"registry_add"}, name : {"default", "extra", ""}, url : {"u/new"},
     priority : {None, Some(5)}]
    \cup [op : {"registry_remove"}, name : {"default", "extra", "ghost", ""}]
    \cup [op : {"registry_list"}]

OtherCommands == [op : {"init", "list"}]

Commands == InstallCommands \cup RegistryCommands \cup OtherCommands

SeqProcs == {"p1"}
AllProcs == {"p1", "p2"}

(***************************************************************************)
(* State.                                                                  *)
(***************************************************************************)
VARIABLES
    \* durable state under the data directory and the user's environment
    stateFile,       \* package_state.json
    configFile,      \* the persisted registry list
    files,           \* the files under packages/
    cacheDirs,       \* the registries/<name>/ directories that exist
    searchPath,      \* the persisted executable search path
    \* one running instance of the tool per process
    pc,              \* where the instance is in main / install
    cmd,             \* the parsed command line
    config,          \* Grip.config.registries
    package_state,   \* Grip.package_state.packages
    package,         \* install: the PackageDefinition found
    releases,        \* install: the release listing
    release,         \* install: the chosen release
    asset_obj,       \* install: the chosen asset
    target_dir,      \* install: the per-install directory
    downloaded_file, \* install: the path download_asset returned
    extract_result,  \* install: what utils::extract_archive returned
    selection,       \* install: the index the last prompt returned, if one ran
    h_replaced,      \* history: the entry HashMap::insert displaced at line 60
    outcome,         \* the Result main ends with
    runs             \* invocations started so far

diskVars == <<stateFile, configFile, files, cacheDirs, searchPath>>
installVars == <<package, releases, release, asset_obj, target_dir, downloaded_file,
                 extract_result, selection, h_replaced>>
procVars == <<pc, cmd, config, package_state, installVars, outcome>>
vars == <<diskVars, procVars, runs>>

NoCmd == [op |-> "none"]
NoPackage == [name |-> "", repository |-> "", executable_name |-> None]
NoRelease == [tag_name |-> None, assets |-> None]
NoAsset == [name |-> None, browser_download_url |-> None]
NoDir == <<>>
NoPath == [dir |-> <<>>, file |-> <<>>]

AbsentFile == [kind |-> "absent"]
CorruptFile == [kind |-> "corrupt"]

Init ==
    /\ stateFile = AbsentFile
    /\ configFile \in {<<Default, Extra>>, <<Extra>>}
    /\ files = {}
    /\ cacheDirs = {}
    /\ searchPath = <<>>
    /\ pc = [p \in AllProcs |-> "idle"]
    /\ cmd = [p \in AllProcs |-> NoCmd]
    /\ config = [p \in AllProcs |-> <<>>]
    /\ package_state = [p \in AllProcs |-> {}]
    /\ package = [p \in AllProcs |-> NoPackage]
    /\ releases = [p \in AllProcs |-> <<>>]
    /\ release = [p \in AllProcs |-> NoRelease]
    /\ asset_obj = [p \in AllProcs |-> NoAsset]
    /\ target_dir = [p \in AllProcs |-> NoDir]
    /\ downloaded_file = [p \in AllProcs |-> NoPath]
    /\ extract_result = [p \in AllProcs |-> "none"]
    /\ selection = [p \in AllProcs |-> None]
    /\ h_replaced = [p \in AllProcs |-> None]
    /\ outcome = [p \in AllProcs |-> "none"]
    /\ runs = 0

(***************************************************************************)
(* The install ledger: PackageState.                                       *)
(***************************************************************************)
JNull == [t |-> "null"]
JString(x) == [t |-> "string", s |-> x]

\* to_string_pretty writing an absent executable_path as an empty path string
\* in place of null.
to_string_pretty_no_null(state) ==
    [kind |-> "doc",
     packages |->
        { [key |-> e.name,
           value |-> [version |-> JString(e.version),
                      install_path |-> JString(e.install_path),
                      executable_path |->
                          IF e.executable_path = None THEN JString(NoPath)
                          ELSE JString(e.executable_path[1])]] : e \in state }]

\* serde_json::to_string_pretty of a PackageState: one member per key of the
\* packages map; a PathBuf is a JSON string, Option::None is JSON null.
to_string_pretty(state) ==
    [kind |-> "doc",
     packages |->
        { [key |-> e.name,
           value |-> [version |-> JString(e.version),
                      install_path |-> JString(e.install_path),
                      executable_path |->
                          IF e.executable_path = None THEN JNull
                          ELSE JString(e.executable_path[1])]] : e \in state }]

\* serde_json::from_str into a PackageState
from_str(content) ==
    { [name |-> m.key,
       version |-> m.value.version.s,
       install_path |-> m.value.install_path.s,
       executable_path |->
           IF m.value.executable_path.t = "null" THEN None
           ELSE Some(m.value.executable_path.s)] : m \in content.packages }

\* PackageState::load: the Result, as [ok, value]
load(state_file) ==
    IF state_file.kind = "absent" THEN [ok |-> TRUE, value |-> {}]
    ELSE IF state_file.kind = "corrupt" THEN [ok |-> FALSE, value |-> {}]
    ELSE [ok |-> TRUE, value |-> from_str(state_file)]

\* add_package with a push in place of the keyed insert: the old entry stays.
add_package_push(state, name, version, install_path, executable_path) ==
    state \cup {[name |-> name, version |-> version, install_path |-> install_path,
                 executable_path |-> executable_path]}

\* PackageState::add_package: HashMap::insert replaces the entry of the key
add_package(state, name, version, install_path, executable_path) ==
    {e \in state : e.name # name}
        \cup {[name |-> name, version |-> version, install_path |-> install_path,
               executable_path |-> executable_path]}

\* PackageState::get_package, as an Option
get_package(state, name) ==
    IF \E e \in state : e.name = name
      THEN Some(CHOOSE e \in state : e.name = name)
      ELSE None

(***************************************************************************)
(* main: Cli::parse, Grip::new, dispatch, exit.                            *)
(***************************************************************************)
Fail(p, err) ==
    /\ pc' = [pc EXCEPT ![p] = "Failed"]
    /\ outcome' = [outcome EXCEPT ![p] = err]

\* Cli::parse then Grip::new: the configuration and the ledger are loaded.
main_start(p) ==
    /\ pc[p] = "idle"
    /\ runs < MaxRuns
    /\ runs' = runs + 1
    /\ \E c \in Commands :
        /\ cmd' = [cmd EXCEPT ![p] = c]
        /\ config' = [config EXCEPT ![p] = configFile]
        /\ IF load(stateFile).ok
             THEN /\ package_state' = [package_state EXCEPT ![p] = load(stateFile).value]
                  /\ pc' = [pc EXCEPT ![p] =
                               IF c.op = "install" THEN "Resolving" ELSE "Command"]
                  /\ outcome' = [outcome EXCEPT ![p] = "running"]
             ELSE /\ UNCHANGED package_state
                  /\ Fail(p, "LoadError")
    /\ UNCHANGED <<diskVars, installVars>>

\* The process ends: its memory is gone.
main_exit(p) ==
    /\ pc[p] \in {"Done", "Failed"}
    /\ pc' = [pc EXCEPT ![p] = "idle"]
    /\ cmd' = [cmd EXCEPT ![p] = NoCmd]
    /\ config' = [config EXCEPT ![p] = <<>>]
    /\ package_state' = [package_state EXCEPT ![p] = {}]
    /\ package' = [package EXCEPT ![p] = NoPackage]
    /\ releases' = [releases EXCEPT ![p] = <<>>]
    /\ release' = [release EXCEPT ![p] = NoRelease]
    /\ asset_obj' = [asset_obj EXCEPT ![p] = NoAsset]
    /\ target_dir' = [target_dir EXCEPT ![p] = NoDir]
    /\ downloaded_file' = [downloaded_file EXCEPT ![p] = NoPath]
    /\ extract_result' = [extract_result EXCEPT ![p] = "none"]
    /\ selection' = [selection EXCEPT ![p] = None]
    /\ h_replaced' = [h_replaced EXCEPT ![p] = None]
    /\ outcome' = [outcome EXCEPT ![p] = "none"]
    /\ UNCHANGED <<diskVars, runs>>

\* Commands::Init and Commands::List touch none of the modelled state.
main_other(p) ==
    /\ pc[p] = "Command"
    /\ cmd[p].op \in {"init", "list"}
    /\ pc' = [pc EXCEPT ![p] = "Done"]
    /\ outcome' = [outcome EXCEPT ![p] = "ok"]
    /\ UNCHANGED <<diskVars, cmd, config, package_state, installVars, runs>>

(***************************************************************************)
(* Grip::install, one action per pipeline stage.                           *)
(***************************************************************************)
Min(S) == CHOOSE x \in S : \A y \in S : x <= y

\* The empty string, as a file name.
EmptyName == <<"">>

\* RegistryManager::find_package, as an Option: the definition of the first
\* registry, in priority order then configuration order, that lists the name.
find_package(registries, name) ==
    LET cand == {i \in 1..Len(registries) :
                    \E d \in RegistryIndex(registries[i].name) : d.name = name}
        best == CHOOSE i \in cand : \A j \in cand :
                    \/ registries[i].priority < registries[j].priority
                    \/ registries[i].priority = registries[j].priority /\ i <= j
    IN IF cand = {} THEN None
       ELSE Some(CHOOSE d \in RegistryIndex(registries[best].name) : d.name = name)

\* Stage Resolving, first half: the package lookup (lines 116-119).
install_find_package(p) ==
    /\ pc[p] = "Resolving"
    /\ \/ /\ find_package(config[p], cmd[p].package) # None
          /\ package' = [package EXCEPT ![p] = find_package(config[p], cmd[p].package)[1]]
          /\ cacheDirs' = cacheDirs \cup {config[p][i].name : i \in 1..Len(config[p])}
          /\ pc' = [pc EXCEPT ![p] = "ListingReleases"]
          /\ UNCHANGED outcome
       \/ /\ find_package(config[p], cmd[p].package) = None
          /\ cacheDirs' = cacheDirs \cup {config[p][i].name : i \in 1..Len(config[p])}
          /\ Fail(p, "PackageNotFound")
          /\ UNCHANGED package
       \/ /\ Fail(p, "NetworkError")
          /\ UNCHANGED <<package, cacheDirs>>
    /\ UNCHANGED <<stateFile, configFile, files, searchPath, cmd, config, package_state,
                   releases, release, asset_obj, target_dir, downloaded_file,
                   extract_result, selection, h_replaced, runs>>

\* Stage Resolving, second half: the release listing (lines 127-134).
install_get_releases(p) ==
    /\ pc[p] = "ListingReleases"
    /\ \/ \E listing \in HostedReleases(package[p].repository) :
            IF listing = <<>>
              THEN /\ Fail(p, "NoReleases")
                   /\ UNCHANGED releases
              ELSE /\ releases' = [releases EXCEPT ![p] = listing]
                   /\ pc' = [pc EXCEPT ![p] = "SelectingRelease"]
                   /\ UNCHANGED outcome
       \/ /\ Fail(p, "NetworkError")
          /\ UNCHANGED releases
    /\ UNCHANGED <<diskVars, cmd, config, package_state, package, release, asset_obj,
                   target_dir, downloaded_file, extract_result, selection, h_replaced, runs>>

HasTag(r) == r.tag_name # None
HasName(a) == a.name # None

\* releases.iter().filter_map(|r| r["tag_name"].as_str()).collect()
versions_of(rels) ==
    LET kept == SelectSeq(rels, HasTag) IN [i \in 1..Len(kept) |-> kept[i].tag_name[1]]

\* assets.iter().filter_map(|a| a["name"].as_str()).collect()
asset_names_of(assets) ==
    LET kept == SelectSeq(assets, HasName) IN [i \in 1..Len(kept) |-> kept[i].name[1]]

\* releases.iter().find(|r| r["tag_name"].as_str().unwrap_or("") == v)
find_release(rels, v) ==
    LET hit == {i \in 1..Len(rels) : unwrap_or(rels[i].tag_name, "") = v}
    IN IF hit = {} THEN None ELSE Some(rels[Min(hit)])

\* assets.iter().find(|asset| asset["name"].as_str().unwrap_or("") == a)
find_asset(assets, a) ==
    LET hit == {i \in 1..Len(assets) : unwrap_or(assets[i].name, EmptyName) = a}
    IN IF hit = {} THEN None ELSE Some(assets[Min(hit)])

\* Stage Selecting Release (lines 136-156).
install_select_release(p) ==
    /\ pc[p] = "SelectingRelease"
    /\ \/ /\ cmd[p].version # None
          /\ find_release(releases[p], cmd[p].version[1]) # None
          /\ release' = [release EXCEPT ![p] = find_release(releases[p], cmd[p].version[1])[1]]
          /\ pc' = [pc EXCEPT ![p] = "SelectingAsset"]
          /\ UNCHANGED <<outcome, selection>>
       \/ /\ cmd[p].version # None
          /\ find_release(releases[p], cmd[p].version[1]) = None
          /\ Fail(p, "VersionNotFound")
          /\ UNCHANGED <<release, selection>>
       \/ /\ cmd[p].version = None
          /\ \E chosen \in 0..(Len(versions_of(releases[p])) - 1) :
                /\ selection' = [selection EXCEPT ![p] = Some(chosen)]
                /\ release' = [release EXCEPT ![p] = releases[p][chosen + 1]]
          /\ pc' = [pc EXCEPT ![p] = "SelectingAsset"]
          /\ UNCHANGED outcome
       \/ /\ cmd[p].version = None
          /\ Fail(p, "PromptError")
          /\ UNCHANGED <<release, selection>>
    /\ UNCHANGED <<diskVars, cmd, config, package_state, package, releases, asset_obj,
                   target_dir, downloaded_file, extract_result, h_replaced, runs>>

\* release["tag_name"].as_str().unwrap_or("unknown")
tag_or_unknown(r) == unwrap_or(r.tag_name, "unknown")

\* The target directory with another default for a missing tag than the one
\* the ledger entry is given at line 231.
target_dir_of_untagged(package_name, r) ==
    <<"packages", package_name, unwrap_or(r.tag_name, "")>>

\* data_dir.join("packages").join(package_name).join(tag) (lines 190-195)
target_dir_of(package_name, r) == <<"packages", package_name, tag_or_unknown(r)>>

\* Lines 182-195 for the chosen asset: its URL and name must be strings, then
\* the target directory is computed.
install_asset_fields(p, found) ==
    IF found.browser_download_url = None
      THEN /\ Fail(p, "InvalidDownloadUrl")
           /\ UNCHANGED <<asset_obj, target_dir>>
    ELSE IF found.name = None
      THEN /\ Fail(p, "InvalidAssetName")
           /\ UNCHANGED <<asset_obj, target_dir>>
    ELSE /\ asset_obj' = [asset_obj EXCEPT ![p] = found]
         /\ target_dir' = [target_dir EXCEPT ![p] = target_dir_of(cmd[p].package, release[p])]
         /\ pc' = [pc EXCEPT ![p] = "Downloading"]
         /\ UNCHANGED outcome

\* Stage Selecting Asset (lines 158-195).
install_select_asset(p) ==
    /\ pc[p] = "SelectingAsset"
    /\ \/ /\ release[p].assets = None
          /\ Fail(p, "NoAssets")
          /\ UNCHANGED <<asset_obj, target_dir, selection>>
       \/ /\ release[p].assets # None
          /\ cmd[p].asset # None
          /\ find_asset(release[p].assets[1], cmd[p].asset[1]) = None
          /\ Fail(p, "AssetNotFound")
          /\ UNCHANGED <<asset_obj, target_dir, selection>>
       \/ /\ release[p].assets # None
          /\ cmd[p].asset # None
          /\ find_asset(release[p].assets[1], cmd[p].asset[1]) # None
          /\ install_asset_fields(p, find_asset(release[p].assets[1], cmd[p].asset[1])[1])
          /\ UNCHANGED selection
       \/ /\ release[p].assets # None
          /\ cmd[p].asset = None
          /\ Fail(p, "PromptError")
          /\ UNCHANGED <<asset_obj, target_dir, selection>>
       \/ /\ release[p].assets # None
          /\ cmd[p].asset = None
          /\ \E chosen \in 0..(Len(asset_names_of(release[p].assets[1])) - 1) :
                /\ selection' = [selection EXCEPT ![p] = Some(chosen)]
                /\ install_asset_fields(p, release[p].assets[1][chosen + 1])
    /\ UNCHANGED <<diskVars, cmd, config, package_state, package, releases, release,
                   downloaded_file, extract_result, h_replaced, runs>>

\* The archive was unpacked in full, or utils::extract_archive failed after
\* unpacking only some of its entries.
ExtractOutcomes(url) ==
    {[result |-> "ok", entries |-> ArchiveEntries(url)]}
        \cup {[result |-> "err", entries |-> es] : es \in (SUBSET ArchiveEntries(url)) \ {ArchiveEntries(url)}}

\* Stage Downloading (lines 197-200): RegistryManager::download_asset writes
\* target_dir/filename; a failed transfer may leave the file partly written.
install_download_asset(p) ==
    /\ pc[p] = "Downloading"
    /\ LET path == join(target_dir[p], asset_obj[p].name[1]) IN
       \/ /\ files' = files \cup {path}
          /\ downloaded_file' = [downloaded_file EXCEPT ![p] = path]
          /\ pc' = [pc EXCEPT ![p] = "Extracting"]
          /\ UNCHANGED outcome
       \/ /\ files' \in {files, files \cup {path}}
          /\ Fail(p, "NetworkError")
          /\ UNCHANGED downloaded_file
    /\ UNCHANGED <<stateFile, configFile, cacheDirs, searchPath, cmd, config, package_state,
                   package, releases, release, asset_obj, target_dir, extract_result,
                   selection, h_replaced, runs>>

\* Lines 210-214: the downloaded path with the canonical name and the
\* downloaded file's extension.
renamed_path(downloaded, executable_name) ==
    LET named == set_file_name(downloaded, executable_name) IN
    IF extension(downloaded.file) # None
      THEN set_extension(named, extension(downloaded.file)[1])
      ELSE named

\* Stage Extracting/Renaming (lines 202-217). The value of the call to
\* utils::extract_archive is dropped at line 205.
install_extract_or_rename(p) ==
    /\ pc[p] = "Extracting"
    /\ LET filename == asset_obj[p].name[1] IN
       \/ /\ is_archive(filename)
          /\ \E x \in ExtractOutcomes(asset_obj[p].browser_download_url[1]) :
               /\ extract_result' = [extract_result EXCEPT ![p] = x.result]
               /\ \/ /\ files' = (files \cup {join(target_dir[p], e) : e \in x.entries})
                                     \ {downloaded_file[p]}
                     /\ pc' = [pc EXCEPT ![p] = "UpdatingPath"]
                     /\ UNCHANGED outcome
                  \/ /\ files' = files \cup {join(target_dir[p], e) : e \in x.entries}
                     /\ Fail(p, "FilesystemError")
       \/ /\ ~is_archive(filename)
          /\ package[p].executable_name # None
          /\ files' = (files \ {downloaded_file[p]})
                          \cup {renamed_path(downloaded_file[p], package[p].executable_name[1])}
          /\ pc' = [pc EXCEPT ![p] = "UpdatingPath"]
          /\ UNCHANGED <<outcome, extract_result>>
       \/ /\ ~is_archive(filename)
          /\ package[p].executable_name # None
          /\ Fail(p, "FilesystemError")
          /\ UNCHANGED <<files, extract_result>>
       \/ /\ ~is_archive(filename)
          /\ package[p].executable_name = None
          /\ pc' = [pc EXCEPT ![p] = "UpdatingPath"]
          /\ UNCHANGED <<files, outcome, extract_result>>
    /\ UNCHANGED <<stateFile, configFile, cacheDirs, searchPath, cmd, config, package_state,
                   package, releases, release, asset_obj, target_dir, downloaded_file,
                   selection, h_replaced, runs>>

\* add_to_path without the membership test: the directory is always appended.
add_to_path_always(path, dir) == Append(path, dir)

\* path::add_to_path: appends the directory unless an entry equals it.
add_to_path(path, dir) ==
    IF \E i \in 1..Len(path) : path[i] = dir THEN path ELSE Append(path, dir)

\* install with line 219 left out: the search path is not extended before the
\* ledger entry is recorded.
install_skip_add_to_path(p) ==
    /\ pc[p] = "UpdatingPath"
    /\ pc' = [pc EXCEPT ![p] = "Recording"]
    /\ UNCHANGED <<diskVars, cmd, config, package_state, installVars, outcome, runs>>

\* Stage Updating Path (line 219).
install_add_to_path(p) ==
    /\ pc[p] = "UpdatingPath"
    /\ \/ /\ searchPath' = add_to_path(searchPath, target_dir[p])
          /\ pc' = [pc EXCEPT ![p] = "Recording"]
          /\ UNCHANGED outcome
       \/ /\ Fail(p, "PathError")
          /\ UNCHANGED searchPath
    /\ UNCHANGED <<stateFile, configFile, files, cacheDirs, cmd, config, package_state,
                   installVars, runs>>

\* Lines 221-225
executable_path_of(dir, executable_name) ==
    IF executable_name # None THEN Some(join(dir, executable_name[1])) ELSE None

\* A save that would keep what another instance persisted meanwhile: the
\* entries on disk are merged into the document written.
save_merging(state, ok) ==
    IF ok THEN stateFile' = to_string_pretty(state \cup load(stateFile).value)
    ELSE stateFile' \in {stateFile, CorruptFile}

\* A save whose write is lost: the document on disk stays as it was.
save_lost(state, ok) == stateFile' = stateFile

\* PackageState::save: the document is replaced; a failed write leaves the old
\* document (the file could not be opened) or a truncated one.
save(state, ok) ==
    IF ok THEN stateFile' = to_string_pretty(state)
    ELSE stateFile' \in {stateFile, CorruptFile}

\* Stage Recording (lines 221-240): add_package, then save.
install_record(p) ==
    /\ pc[p] = "Recording"
    /\ h_replaced' = [h_replaced EXCEPT ![p] = get_package(package_state[p], cmd[p].package)]
    /\ package_state' = [package_state EXCEPT ![p] =
            add_package(package_state[p], cmd[p].package, tag_or_unknown(release[p]),
                        target_dir[p],
                        executable_path_of(target_dir[p], package[p].executable_name))]
    /\ \/ /\ save(package_state'[p], TRUE)
          /\ pc' = [pc EXCEPT ![p] = "Done"]
          /\ outcome' = [outcome EXCEPT ![p] = "ok"]
       \/ /\ save(package_state'[p], FALSE)
          /\ Fail(p, "SaveError")
    /\ UNCHANGED <<configFile, files, cacheDirs, searchPath, cmd, config, package, releases,
                   release, asset_obj, target_dir, downloaded_file, extract_result,
                   selection, runs>>

(***************************************************************************)
(* Grip::handle_registry_command.                                          *)
(***************************************************************************)
\* The duplicate test of line 250 finding nothing, whatever is configured.
no_names(registries) == {}

\* The names line 250 compares with: registries.iter().any(|r| r.name == name)
RegistryNamesOf(registries) == {registries[i].name : i \in 1..Len(registries)}

\* The retain with its predicate inverted: only the named registry is kept.
retain_only(registries, name) ==
    LET keep(r) == r.name = name IN SelectSeq(registries, keep)

\* Vec::retain(|r| r.name != name)
retain_not(registries, name) ==
    LET keep(r) == r.name # name IN SelectSeq(registries, keep)

\* Config::save: the registry list is written out, or the write fails.
config_save(registries, ok) ==
    IF ok THEN configFile' = registries ELSE configFile' = configFile

\* RegistryCommands::Add (lines 245-262)
handle_registry_add(p) ==
    /\ pc[p] = "Command"
    /\ cmd[p].op = "registry_add"
    /\ \/ /\ cmd[p].name \in RegistryNamesOf(config[p])
          /\ Fail(p, "RegistryAlreadyExists")
          /\ UNCHANGED <<config, configFile>>
       \/ /\ cmd[p].name \notin RegistryNamesOf(config[p])
          /\ config' = [config EXCEPT ![p] =
                 Append(config[p], [name |-> cmd[p].name, url |-> cmd[p].url,
                                    priority |-> unwrap_or(cmd[p].priority, 0)])]
          /\ \/ /\ config_save(config'[p], TRUE)
                /\ pc' = [pc EXCEPT ![p] = "Done"]
                /\ outcome' = [outcome EXCEPT ![p] = "ok"]
             \/ /\ config_save(config'[p], FALSE)
                /\ Fail(p, "ConfigSaveError")
    /\ UNCHANGED <<stateFile, files, cacheDirs, searchPath, cmd, package_state,
                   installVars, runs>>

\* The protection of line 264 left out.
is_protected_never(name) == FALSE

\* Line 264: the default registry is protected.
is_protected(name) == name = "default"

\* data_dir.join("registries").join(&name) (lines 277-281): joining the empty
\* string adds no component, the path is the registries directory itself.
registry_path(name) == IF name = "" THEN <<"registries">> ELSE <<"registries", name>>

\* Path::starts_with, on sequences of components
starts_with(path, base) ==
    Len(base) <= Len(path) /\ SubSeq(path, 1, Len(base)) = base

\* The cache directories std::fs::remove_dir_all(path) takes away: those at or
\* below path.
remove_dir_all(dirs, path) == {n \in dirs : ~starts_with(registry_path(n), path)}

\* RegistryCommands::Remove (lines 263-287)
handle_registry_remove(p) ==
    /\ pc[p] = "Command"
    /\ cmd[p].op = "registry_remove"
    /\ \/ /\ is_protected(cmd[p].name)
          /\ Fail(p, "CannotRemoveDefaultRegistry")
          /\ UNCHANGED <<config, configFile, cacheDirs>>
       \/ /\ ~is_protected(cmd[p].name)
          /\ config' = [config EXCEPT ![p] = retain_not(config[p], cmd[p].name)]
          /\ \/ /\ Len(config'[p]) = Len(config[p])
                /\ Fail(p, "RegistryNotFound")
                /\ UNCHANGED <<configFile, cacheDirs>>
             \/ /\ Len(config'[p]) # Len(config[p])
                /\ config_save(config'[p], FALSE)
                /\ Fail(p, "ConfigSaveError")
                /\ UNCHANGED cacheDirs
             \/ /\ Len(config'[p]) # Len(config[p])
                /\ config_save(config'[p], TRUE)
                /\ \/ /\ cacheDirs' = remove_dir_all(cacheDirs, registry_path(cmd[p].name))
                      /\ pc' = [pc EXCEPT ![p] = "Done"]
                      /\ outcome' = [outcome EXCEPT ![p] = "ok"]
                   \/ /\ remove_dir_all(cacheDirs, registry_path(cmd[p].name)) # cacheDirs
                      /\ Fail(p, "FilesystemError")
                      /\ UNCHANGED cacheDirs
    /\ UNCHANGED <<stateFile, files, searchPath, cmd, package_state, installVars, runs>>

\* RegistryCommands::List (lines 288-299)
handle_registry_list(p) ==
    /\ pc[p] = "Command"
    /\ cmd[p].op = "registry_list"
    /\ pc' = [pc EXCEPT ![p] = "Done"]
    /\ outcome' = [outcome EXCEPT ![p] = "ok"]
    /\ UNCHANGED <<diskVars, cmd, config, package_state, installVars, runs>>

(***************************************************************************)
(* Specifications.                                                         *)
(***************************************************************************)
Step(p) ==
    \/ main_start(p)
    \/ install_find_package(p)
    \/ install_get_releases(p)
    \/ install_select_release(p)
    \/ install_select_asset(p)
    \/ install_download_asset(p)
    \/ install_extract_or_rename(p)
    \/ install_add_to_path(p)
    \/ install_record(p)
    \/ handle_registry_add(p)
    \/ handle_registry_remove(p)
    \/ handle_registry_list(p)
    \/ main_other(p)
    \/ main_exit(p)

\* One invocation of the tool at a time.
Next == \E p \in SeqProcs : Step(p)

Spec == Init /\ [][Next]_vars

\* Two invocations at a time against the same data directory: nothing in
\* Grip::new or install takes a lock, so their steps interleave freely.
MaxConcRuns == 2

\* The command lines the concurrent instances are started with: two installs
\* of different packages with both prompts, and one of each other command.
ConcCommands ==
    {c \in InstallCommands : c.package \in {"foo", "bar"} /\ c.version = None /\ c.asset = None}
        \cup [op : {"registry_add"}, name : {"extra"}, url : {"u/new"}, priority : {None}]
        \cup [op : {"registry_remove"}, name : {"extra"}]
        \cup [op : {"registry_list", "init"}]

ConcNext ==
    \E p \in AllProcs :
        /\ Step(p)
        /\ runs' <= MaxConcRuns
        /\ cmd'[p] \in ConcCommands \cup {NoCmd}

SpecConc == Init /\ [][ConcNext]_vars

(***************************************************************************)
(* Properties.                                                             *)
(***************************************************************************)
EntriesOf(state, name) == {e \in state : e.name = name}

\* The ledger entry the install in progress in p resolved.
ResolvedEntry(p) ==
    [name |-> cmd[p].package,
     version |-> IF release[p].tag_name = None THEN "unknown" ELSE release[p].tag_name[1],
     install_path |-> target_dir[p],
     executable_path |->
        IF package[p].executable_name = None THEN None
        ELSE Some([dir |-> target_dir[p], file |-> package[p].executable_name[1]])]

InstallDone(p) == pc[p] = "Done" /\ cmd[p].op = "install"

\* C1: the ledger, in memory and as persisted, never holds two entries of one
\* package name, and when an install has succeeded the one entry of its package
\* carries the version, install_path and executable_path of that install,
\* whatever entry of that name the ledger held before.
C1_OneEntryPerName ==
    /\ \A p \in AllProcs :
        /\ \A e1, e2 \in package_state[p] : e1.name = e2.name => e1 = e2
        /\ InstallDone(p) => EntriesOf(package_state[p], cmd[p].package) = {ResolvedEntry(p)}
    /\ stateFile.kind = "doc" =>
          \A m1, m2 \in stateFile.packages : m1.key = m2.key => m1 = m2

\* C1 witness: an install succeeded for a package the ledger already listed
\* at another version.
C1_Witness ==
    \E p \in AllProcs :
        /\ InstallDone(p)
        /\ h_replaced[p] # None
        /\ h_replaced[p][1].version # ResolvedEntry(p).version
        /\ Cardinality(EntriesOf(package_state[p], cmd[p].package)) = 1

\* The explicit --asset of p names no asset of the chosen release.
NoExactAssetMatch(p) ==
    /\ cmd[p].asset # None
    /\ release[p].assets # None
    /\ \A i \in 1..Len(release[p].assets[1]) :
          release[p].assets[1][i].name # Some(cmd[p].asset[1])

\* C2: when the explicit asset name equals no asset name of the chosen release,
\* the asset selection stage ends the install with AssetNotFound and leaves the
\* ledger (in memory and persisted), the package files and the search path as
\* they were.
C2_AssetNotFound ==
    [][\A p \in AllProcs :
          (pc[p] = "SelectingAsset" /\ NoExactAssetMatch(p) /\ pc'[p] # "SelectingAsset")
             => /\ pc'[p] = "Failed"
                /\ outcome'[p] = "AssetNotFound"
                /\ UNCHANGED <<stateFile, files, searchPath, package_state>>]_vars

\* C2, the part that holds of the code: an explicit asset name that equals no
\* asset name of the chosen release ends the install at the asset selection
\* stage, with the ledger, the package files and the search path untouched.
C2_NoEffect ==
    [][\A p \in AllProcs :
          (pc[p] = "SelectingAsset" /\ NoExactAssetMatch(p) /\ pc'[p] # "SelectingAsset")
             => /\ pc'[p] = "Failed"
                /\ UNCHANGED <<stateFile, files, searchPath, package_state>>]_vars

\* Some release of the listing of p carries the tag v.
TagListed(p, v) == \E i \in 1..Len(releases[p]) : releases[p][i].tag_name = Some(v)

\* C3: version selection is exact-match only. With an explicit version v the
\* chosen release is a release of the listing tagged v, and the install fails
\* with VersionNotFound when the listing has no release tagged v; with no
\* version and the prompt's default (index 0) accepted, the chosen release is
\* the first of the listing as returned.
C3_ExactVersion ==
    [][\A p \in AllProcs :
          (pc[p] = "SelectingRelease" /\ pc'[p] # "SelectingRelease")
             => /\ cmd[p].version # None =>
                      IF TagListed(p, cmd[p].version[1])
                        THEN /\ pc'[p] = "SelectingAsset"
                             /\ release'[p].tag_name = cmd[p].version
                             /\ \E i \in 1..Len(releases[p]) : release'[p] = releases[p][i]
                        ELSE /\ pc'[p] = "Failed"
                             /\ outcome'[p] = "VersionNotFound"
                /\ (cmd[p].version = None /\ selection'[p] = Some(0))
                      => release'[p] = releases[p][1]]_vars

\* The ledger entry p holds for the package it installs, as a set.
OwnEntries(p) == EntriesOf(package_state[p], cmd[p].package)

RawInstallDone(p) ==
    /\ InstallDone(p)
    /\ ~is_archive(asset_obj[p].name[1])
    /\ package[p].executable_name # None

\* The downloaded file under the canonical name, with the extension it was
\* downloaded with.
CanonicalFile(p) ==
    [dir |-> target_dir[p],
     file |-> IF extension(downloaded_file[p].file) = None
                THEN package[p].executable_name[1]
                ELSE file_stem(package[p].executable_name[1])
                        \o extension(downloaded_file[p].file)]

\* C4: after a successful install of a raw asset for a package with an
\* executable_name, the downloaded file sits in the target directory under the
\* executable_name with its original extension, nothing was extracted, and the
\* ledger's executable_path is the path of that renamed file.
C4_RawRenamed ==
    \A p \in AllProcs :
        RawInstallDone(p) =>
            /\ CanonicalFile(p) \in files
            /\ extract_result[p] = "none"
            /\ \A e \in OwnEntries(p) : e.executable_path = Some(CanonicalFile(p))

\* C4, the part that holds of the code: the file is renamed and nothing is
\* extracted.
C4_RenamedOnly ==
    \A p \in AllProcs :
        RawInstallDone(p) => CanonicalFile(p) \in files /\ extract_result[p] = "none"

ArchiveInstallDone(p) ==
    /\ InstallDone(p)
    /\ is_archive(asset_obj[p].name[1])
    /\ package[p].executable_name # None

\* The directory packages/P/V of an install of package P at tag V.
PackageDir(P, V) == <<"packages", P, V>>

OnSearchPath(dir) == \E i \in 1..Len(searchPath) : searchPath[i] = dir

\* C5: after a successful install of package P at release tag V from an archive
\* asset, for a package with executable_name E, the archive's entries are in
\* packages/P/V, the downloaded archive is gone, packages/P/V is on the search
\* path, and the ledger entry of P is {V, packages/P/V, packages/P/V/E}.
C5_ArchiveInstall ==
    \A p \in AllProcs :
        (ArchiveInstallDone(p) /\ release[p].tag_name # None) =>
            LET P == cmd[p].package
                V == release[p].tag_name[1]
                E == package[p].executable_name[1]
            IN /\ \A e \in ArchiveEntries(asset_obj[p].browser_download_url[1]) :
                      [dir |-> PackageDir(P, V), file |-> e] \in files
               /\ [dir |-> PackageDir(P, V), file |-> asset_obj[p].name[1]] \notin files
               /\ OnSearchPath(PackageDir(P, V))
               /\ OwnEntries(p) =
                     {[name |-> P, version |-> V, install_path |-> PackageDir(P, V),
                       executable_path |-> Some([dir |-> PackageDir(P, V), file |-> E])]}

\* C5, the part that holds of the code: everything but the extraction.
C5_ArchiveRecorded ==
    \A p \in AllProcs :
        (ArchiveInstallDone(p) /\ release[p].tag_name # None) =>
            LET P == cmd[p].package
                V == release[p].tag_name[1]
                E == package[p].executable_name[1]
            IN /\ extract_result[p] = "ok" =>
                   \A e \in ArchiveEntries(asset_obj[p].browser_download_url[1]) :
                      [dir |-> PackageDir(P, V), file |-> e] \in files
               /\ [dir |-> PackageDir(P, V), file |-> asset_obj[p].name[1]] \notin files
               /\ OnSearchPath(PackageDir(P, V))
               /\ OwnEntries(p) =
                     {[name |-> P, version |-> V, install_path |-> PackageDir(P, V),
                       executable_path |-> Some([dir |-> PackageDir(P, V), file |-> E])]}

\* C6: after a successful install from an archive, for a package with an
\* executable_name, the executable_path recorded in the ledger names a file
\* that exists in the install directory.
C6_ExecutableExists ==
    \A p \in AllProcs :
        ArchiveInstallDone(p) =>
            \A e \in OwnEntries(p) :
                /\ e.executable_path # None
                /\ e.executable_path[1].dir = e.install_path
                /\ e.executable_path[1] \in files

\* C10: a failed stage ends the install, and a failed extraction is a failed
\* stage: once utils::extract_archive has returned an error the install is
\* Failed, so it never reaches the search-path update or the ledger.
C10_ExtractionFailureAborts ==
    \A p \in AllProcs :
        /\ pc[p] = "Failed" => outcome[p] \notin {"ok", "running", "none"}
        /\ extract_result[p] = "err" => pc[p] = "Failed"

\* C10, the part that holds of the code: a Failed install runs no further
\* stage; the process only exits, and nothing on disk changes.
C10_FailedIsFinal ==
    [][\A p \in AllProcs :
          pc[p] = "Failed" => /\ pc'[p] \in {"Failed", "idle"}
                              /\ UNCHANGED diskVars]_vars

RemoveStep(p) ==
    pc[p] = "Command" /\ cmd[p].op = "registry_remove" /\ pc'[p] # "Command"

AddStep(p) ==
    pc[p] = "Command" /\ cmd[p].op = "registry_add" /\ pc'[p] # "Command"

\* C7: registry remove "default" fails with CannotRemoveDefaultRegistry whether
\* or not a registry named default is configured, and registry remove of any
\* other name that is not configured fails with RegistryNotFound.
C7_RegistryProtection ==
    [][\A p \in AllProcs :
          RemoveStep(p) =>
             /\ cmd[p].name = "default" =>
                   pc'[p] = "Failed" /\ outcome'[p] = "CannotRemoveDefaultRegistry"
             /\ (cmd[p].name # "default" /\ cmd[p].name \notin RegistryNamesOf(config[p])) =>
                   pc'[p] = "Failed" /\ outcome'[p] = "RegistryNotFound"]_vars

\* C7 witness: the removal of "default" was refused in a configuration that
\* has no registry named default.
C7_Witness ==
    \E p \in AllProcs :
        /\ pc[p] = "Failed"
        /\ cmd[p].op = "registry_remove"
        /\ outcome[p] = "CannotRemoveDefaultRegistry"
        /\ "default" \notin RegistryNamesOf(config[p])

\* C8: registry add of a configured name, registry remove of "default" and
\* registry remove of an unconfigured name each fail and leave the registry
\* list, in memory and persisted, exactly as it was.
C8_RejectedLeavesConfig ==
    [][\A p \in AllProcs :
          (\/ AddStep(p) /\ cmd[p].name \in RegistryNamesOf(config[p])
           \/ RemoveStep(p) /\ cmd[p].name = "default"
           \/ RemoveStep(p) /\ cmd[p].name \notin RegistryNamesOf(config[p]))
             => /\ pc'[p] = "Failed"
                /\ outcome'[p] \in {"RegistryAlreadyExists", "CannotRemoveDefaultRegistry",
                                    "RegistryNotFound"}
                /\ config'[p] = config[p]
                /\ configFile' = configFile]_vars

\* C8 witness: an unconfigured name was refused by registry remove while the
\* configuration holds registries.
C8_Witness ==
    \E p \in AllProcs :
        /\ pc[p] = "Failed"
        /\ outcome[p] = "RegistryNotFound"
        /\ Len(config[p]) >= 2
        /\ config[p] = configFile

JustLoaded(p) == pc[p] \in {"Resolving", "Command"}

\* C9: saving a ledger and loading it back gives the same set of
\* (name, version, install_path, executable_path) tuples, entries without an
\* executable_path included: this holds of every ledger an instance holds, of
\* the document an install has just saved, and of the ledger an instance has
\* just loaded; with no persisted document load succeeds with the empty ledger.
C9_RoundTrip ==
    /\ \A p \in AllProcs :
        /\ load(to_string_pretty(package_state[p])) = [ok |-> TRUE, value |-> package_state[p]]
        /\ InstallDone(p) => load(stateFile) = [ok |-> TRUE, value |-> package_state[p]]
        /\ (JustLoaded(p) /\ stateFile.kind = "doc") =>
              to_string_pretty(package_state[p]) = stateFile
        /\ (JustLoaded(p) /\ stateFile = AbsentFile) => package_state[p] = {}
        /\ outcome[p] = "LoadError" => stateFile # AbsentFile
    /\ load(AbsentFile) = [ok |-> TRUE, value |-> {}]

\* C9 witness: an instance has loaded a saved ledger that holds an entry with
\* no executable_path next to one with an executable_path.
C9_Witness ==
    \E p \in AllProcs :
        /\ JustLoaded(p)
        /\ stateFile.kind = "doc"
        /\ \E e \in package_state[p] : e.executable_path = None
        /\ \E e \in package_state[p] : e.executable_path # None

\* The number of entries of the search path equal to dir.
Occurrences(path, dir) == Cardinality({i \in 1..Len(path) : path[i] = dir})

PathStep(p) == pc[p] = "UpdatingPath" /\ pc'[p] = "Recording"

\* C11: the search-path update is idempotent. After an install has extended
\* the search path with its directory, the path holds that directory exactly
\* once, and when the directory was on the path already (the same package and
\* version installed again) the update leaves the path as it was.
C11_PathIdempotent ==
    [][\A p \in AllProcs :
          PathStep(p) =>
             /\ Occurrences(searchPath', target_dir[p]) = 1
             /\ OnSearchPath(target_dir[p]) => searchPath' = searchPath]_vars

\* C11 witness: the path update has run for a package and version the ledger
\* already records at the same directory, and the directory is on the path once.
C11_Witness ==
    \E p \in AllProcs :
        /\ pc[p] = "Recording"
        /\ \E e \in package_state[p] :
              e.name = cmd[p].package /\ e.install_path = target_dir[p]
        /\ Occurrences(searchPath, target_dir[p]) = 1

RecordStep(p) == pc[p] = "Recording" /\ pc'[p] # "Recording"

\* C12: concurrent installs are unprotected and the second save wins. The
\* ledger an install persists when it succeeds is the snapshot that instance
\* loaded at start with its own entry inserted, whatever another instance has
\* persisted in the meantime; so two concurrent installs of different packages
\* can both succeed while the persisted ledger lacks the entry of the first.
C12_SecondSaveWins ==
    [][\A p \in AllProcs :
          (RecordStep(p) /\ pc'[p] = "Done") =>
              /\ stateFile'.kind = "doc"
              /\ from_str(stateFile') =
                    {e \in package_state[p] : e.name # cmd[p].package} \cup {ResolvedEntry(p)}]_vars

\* C12 witness: two instances have both installed, different packages, both
\* ended with success, and the persisted ledger has no entry for one of them.
C12_Witness ==
    /\ \A p \in AllProcs : InstallDone(p) /\ outcome[p] = "ok"
    /\ cmd["p1"].package # cmd["p2"].package
    /\ stateFile.kind = "doc"
    /\ \E p \in AllProcs : \A m \in stateFile.packages : m.key # cmd[p].package

\* C13: the ledger is written only after every prior stage of the install has
\* succeeded. The persisted ledger changes only in the Recording stage of an
\* instance whose extraction did not fail, and an install that fails in
\* Downloading or Extracting leaves the persisted ledger as it was, whatever
\* it left in the target directory.
C13_LedgerAfterAllStages ==
    [][/\ stateFile' # stateFile =>
             \E p \in AllProcs : RecordStep(p) /\ extract_result[p] # "err"
       /\ \A p \in AllProcs :
             (pc[p] \in {"Downloading", "Extracting"} /\ pc'[p] = "Failed")
                 => stateFile' = stateFile]_vars

\* C13, the part that holds of the code: the persisted ledger changes only in
\* the Recording stage, which no install reaches from a stage that returned an
\* error to install.
C13_LedgerOnlyAtRecording ==
    [][/\ stateFile' # stateFile => \E p \in AllProcs : RecordStep(p)
       /\ \A p \in AllProcs :
             (pc[p] \in {"Downloading", "Extracting"} /\ pc'[p] = "Failed")
                 => stateFile' = stateFile]_vars

\* The stages of install in the order of section 4.6; the package lookup and
\* the release listing are the two halves of Resolving.
StageOf(l) ==
    CASE l \in {"Resolving", "ListingReleases"} -> 1
      [] l = "SelectingRelease" -> 2
      [] l = "SelectingAsset" -> 3
      [] l = "Downloading" -> 4
      [] l = "Extracting" -> 5
      [] l = "UpdatingPath" -> 6
      [] l = "Recording" -> 7
      [] l = "Done" -> 8
      [] OTHER -> 0

InInstall(p) == cmd[p].op = "install" /\ StageOf(pc[p]) \in 1..7

\* C14: an install moves through Resolving, Selecting Release, Selecting
\* Asset, Downloading, Extracting/Renaming, Updating Path, Recording, Done in
\* that order, one stage at a time and never back, unless it fails. Each
\* effect happens in its own stage: files are written only while Downloading
\* or Extracting/Renaming, the search path changes only in Updating Path, the
\* ledger changes only in Recording; the download starts with the release and
\* the asset resolved, and the ledger entry is recorded with the target
\* directory already on the search path.
C14_StageOrder ==
    [][/\ \A p \in AllProcs :
            InInstall(p) =>
               /\ pc'[p] # "Failed" =>
                     StageOf(pc'[p]) \in {StageOf(pc[p]), StageOf(pc[p]) + 1}
               /\ pc'[p] = "Downloading" =>
                     /\ release'[p] # NoRelease
                     /\ asset_obj'[p] # NoAsset
                     /\ asset_obj'[p] \in {release'[p].assets[1][i] :
                                              i \in 1..Len(release'[p].assets[1])}
               /\ package_state'[p] # package_state[p] => pc[p] = "Recording"
               /\ pc[p] = "Recording" => OnSearchPath(target_dir[p])
       /\ files' # files =>
            \E p \in AllProcs : InInstall(p) /\ pc[p] \in {"Downloading", "Extracting"}
       /\ searchPath' # searchPath =>
            \E p \in AllProcs : InInstall(p) /\ pc[p] = "UpdatingPath"
       /\ stateFile' # stateFile =>
            \E p \in AllProcs : InInstall(p) /\ pc[p] = "Recording"]_vars

\* C14 witness: an install has ended with success after an archive was
\* downloaded and unpacked, its directory is on the search path and its entry
\* is in the persisted ledger.
C14_Witness ==
    \E p \in AllProcs :
        /\ InstallDone(p)
        /\ outcome[p] = "ok"
        /\ extract_result[p] = "ok"
        /\ OnSearchPath(target_dir[p])
        /\ stateFile.kind = "doc"
        /\ ResolvedEntry(p) \in from_str(stateFile)

\* A stage after Downloading fails in this step of p: install returns an
\* error, or utils::extract_archive does.
LateStageFails(p) ==
    /\ InInstall(p)
    /\ StageOf(pc[p]) >= 5
    /\ pc'[p] = "Failed" \/ (extract_result[p] # "err" /\ extract_result'[p] = "err")

\* C15: nothing is rolled back when a stage after Downloading fails. The step
\* in which the stage fails removes no file of the install and leaves the
\* search path and the persisted ledger as they were, and once a stage has
\* failed the command no longer changes the persisted ledger: the ledger on
\* disk stays as it was before the command.
C15_NoRollback ==
    [][\A p \in AllProcs :
          /\ LateStageFails(p) =>
                /\ files \subseteq files'
                /\ searchPath' = searchPath
                /\ stateFile' = stateFile
          /\ (InInstall(p) /\ extract_result[p] = "err") => stateFile' = stateFile]_vars

\* C15, the part that holds of the code: a step in which install returns an
\* error from a stage after Downloading removes no file and leaves the search
\* path as it was, and it leaves the persisted ledger as it was unless the
\* stage is the save itself, which may leave the document truncated.
C15_SideEffectsRemain ==
    [][\A p \in AllProcs :
          (InInstall(p) /\ StageOf(pc[p]) >= 5 /\ pc'[p] = "Failed") =>
              /\ files \subseteq files'
              /\ searchPath' = searchPath
              /\ stateFile' # stateFile => outcome'[p] = "SaveError" /\ stateFile' = CorruptFile
              /\ outcome'[p] = "SaveError" => OnSearchPath(target_dir[p])]_vars

\* C16: the ledger is flushed before install returns. An install ends with
\* success only from its Recording stage, and then the persisted document is
\* the serialization of the whole in-memory ledger, the new entry included;
\* otherwise the Recording stage ends the install with the error of save.
C16_FlushedBeforeSuccess ==
    [][\A p \in AllProcs :
          /\ (InInstall(p) /\ pc'[p] = "Done") => pc[p] = "Recording"
          /\ (InInstall(p) /\ RecordStep(p)) =>
                \/ /\ pc'[p] = "Done"
                   /\ outcome'[p] = "ok"
                   /\ stateFile' = to_string_pretty(package_state'[p])
                   /\ ResolvedEntry(p) \in from_str(stateFile')
                \/ /\ pc'[p] = "Failed"
                   /\ outcome'[p] = "SaveError"]_vars

\* C16 witness: an install has ended with success on a ledger that already
\* held another package, and the persisted document holds both entries.
C16_Witness ==
    \E p \in AllProcs :
        /\ InstallDone(p)
        /\ outcome[p] = "ok"
        /\ Cardinality(package_state[p]) >= 2
        /\ stateFile = to_string_pretty(package_state[p])

RegistryStep(p) ==
    /\ pc[p] = "Command"
    /\ cmd[p].op \in {"registry_add", "registry_remove", "registry_list"}
    /\ pc'[p] # "Command"

\* C17: a successful registry remove N takes exactly the registry named N out
\* of the configuration and keeps the others in their order, persists that
\* configuration, deletes the cache directory of N and no other, and leaves
\* the ledger (in memory and persisted), the package files and the search
\* path as they were; registry add and registry list leave the ledger as it
\* was too.
C17_RemoveFrame ==
    [][\A p \in AllProcs :
          /\ (RemoveStep(p) /\ pc'[p] = "Done") =>
                /\ cmd[p].name \in RegistryNamesOf(config[p])
                /\ LET kept(r) == r.name # cmd[p].name
                   IN config'[p] = SelectSeq(config[p], kept)
                /\ configFile' = config'[p]
                /\ cacheDirs' = cacheDirs \ {cmd[p].name}
          /\ RegistryStep(p) =>
                UNCHANGED <<stateFile, files, searchPath, package_state>>]_vars

\* C17, the part that holds of the code: the configuration and ledger frame
\* of every registry command, and the cache frame of a remove whose name is
\* not empty.
C17_RemoveFrameNamed ==
    [][\A p \in AllProcs :
          /\ (RemoveStep(p) /\ pc'[p] = "Done") =>
                /\ cmd[p].name \in RegistryNamesOf(config[p])
                /\ LET kept(r) == r.name # cmd[p].name
                   IN config'[p] = SelectSeq(config[p], kept)
                /\ configFile' = config'[p]
                /\ cmd[p].name # "" => cacheDirs' = cacheDirs \ {cmd[p].name}
          /\ RegistryStep(p) =>
                UNCHANGED <<stateFile, files, searchPath, package_state>>]_vars

DistinctNames(registries) ==
    \A i, j \in 1..Len(registries) : registries[i].name = registries[j].name => i = j

HasDefault(registries) == \E i \in 1..Len(registries) : registries[i].name = "default"

\* C18: the registry commands keep the registry set well-formed. A registry
\* list with pairwise distinct names still has them after any registry
\* command, in memory and as persisted, and one that includes "default" still
\* includes it; a successful add appends the new registry after the configured
\* ones, with the given priority or 0 when none is given.
C18_RegistrySet ==
    [][/\ DistinctNames(configFile) => DistinctNames(configFile')
       /\ HasDefault(configFile) => HasDefault(configFile')
       /\ \A p \in AllProcs :
             RegistryStep(p) =>
                /\ DistinctNames(config[p]) => DistinctNames(config'[p])
                /\ HasDefault(config[p]) => HasDefault(config'[p])
                /\ (AddStep(p) /\ pc'[p] = "Done") =>
                      /\ config'[p] =
                            Append(config[p],
                                   [name |-> cmd[p].name, url |-> cmd[p].url,
                                    priority |-> IF cmd[p].priority = None THEN 0
                                                 ELSE cmd[p].priority[1]])
                      /\ configFile' = config'[p]]_vars

\* C18 witness: a registry was added with no priority given to a configuration
\* that includes "default"; it is the last one, with priority 0, persisted.
C18_Witness ==
    \E p \in AllProcs :
        /\ pc[p] = "Done"
        /\ cmd[p].op = "registry_add"
        /\ cmd[p].priority = None
        /\ HasDefault(Front(config[p]))
        /\ Last(config[p]).name = cmd[p].name
        /\ Last(config[p]).priority = 0
        /\ DistinctNames(config[p])
        /\ configFile = config[p]

\* This step of p is an interactive choice of a release / of an asset that
\* install goes on with.
PromptedRelease(p) ==
    pc[p] = "SelectingRelease" /\ cmd[p].version = None /\ pc'[p] = "SelectingAsset"

PromptedAsset(p) ==
    pc[p] = "SelectingAsset" /\ cmd[p].asset = None /\ pc'[p] = "Downloading"

\* C19: in interactive selection the record install goes on with is the one
\* displayed at the chosen index: the tag of the chosen release is the tag
\* shown at that index of the version list, and the name of the chosen asset
\* is the name shown at that index of the asset list, also when records of
\* the listing have no string tag_name or name.
C19_ChosenIsDisplayed ==
    [][\A p \in AllProcs :
          /\ PromptedRelease(p) =>
                release'[p].tag_name =
                    Some(versions_of(releases[p])[selection'[p][1] + 1])
          /\ PromptedAsset(p) =>
                asset_obj'[p].name =
                    Some(asset_names_of(release[p].assets[1])[selection'[p][1] + 1])]_vars

\* C19, the part that holds of the code: the chosen index is an index of the
\* displayed list, the record taken is the one at that index of the listing
\* as returned, and it is the displayed one when no record before it lacks
\* the field.
C19_ChosenByPosition ==
    [][\A p \in AllProcs :
          /\ PromptedRelease(p) =>
                LET i == selection'[p][1] + 1 IN
                /\ i \in 1..Len(versions_of(releases[p]))
                /\ release'[p] = releases[p][i]
                /\ (\A k \in 1..i : HasTag(releases[p][k])) =>
                       release'[p].tag_name = Some(versions_of(releases[p])[i])
          /\ PromptedAsset(p) =>
                LET i == selection'[p][1] + 1 IN
                /\ i \in 1..Len(asset_names_of(release[p].assets[1]))
                /\ asset_obj'[p] = release[p].assets[1][i]
                /\ (\A k \in 1..i : HasName(release[p].assets[1][k])) =>
                       asset_obj'[p].name = Some(asset_names_of(release[p].assets[1])[i])]_vars

WellPlaced(e) == e.install_path = PackageDir(e.name, e.version)

\* C20: every ledger entry, in memory and persisted, has install_path
\* packages/P/V for its package name P and its recorded version V; the
\* directory of a persisted entry is on the search path; and after a
\* successful install the version of its entry is the tag of the release it
\* resolved ("unknown" when the release has none) and the install_path is the
\* directory the asset was downloaded into.
C20_InstallPath ==
    /\ \A p \in AllProcs :
          /\ \A e \in package_state[p] : WellPlaced(e)
          /\ InstallDone(p) =>
                \A e \in OwnEntries(p) :
                    /\ e.version = unwrap_or(release[p].tag_name, "unknown")
                    /\ e.install_path = downloaded_file[p].dir
                    /\ OnSearchPath(e.install_path)
    /\ stateFile.kind = "doc" =>
          \A e \in from_str(stateFile) : WellPlaced(e) /\ OnSearchPath(e.install_path)

\* C20 witness: an install of a release with no tag has succeeded; its entry
\* is persisted with version "unknown" under packages/P/unknown.
C20_Witness ==
    \E p \in AllProcs :
        /\ InstallDone(p)
        /\ release[p].tag_name = None
        /\ stateFile.kind = "doc"
        /\ \E e \in from_str(stateFile) :
              /\ e.name = cmd[p].package
              /\ e.version = "unknown"
              /\ e.install_path = <<"packages", cmd[p].package, "unknown">>
              /\ downloaded_file[p].dir = e.install_path

====
